---- MODULE Spec2Model ----
(***************************************************************************)
(* One websocket session of the speech server: a SpeechHandler (server.py) *)
(* running on the single-threaded IOLoop, its Transcriber worker thread    *)
(* (transcriber.py, run/_handle_results) and the thread that consumes the  *)
(* request generator (_request_stream) on behalf of the streaming call.    *)
(***************************************************************************)
EXTENDS Integers, Sequences, FiniteSets, TLC

VARIABLES
  clock,        \* time.time(), in seconds
  nTicks,       \* index of clock in Instants
  conn,         \* websocket: "new", "open", "closing" (close() called), "closed"
  clients,      \* keys of the module-level _clients map
  start_time,   \* SpeechHandler._start_time
  first_audio,  \* history: clock value when the first audio frame arrived
  hPc,          \* position of the IOLoop inside on_message: "idle", "ensure"
  hData,        \* the audio frame on_message is handling
  handlerError, \* exception raised out of on_message, if any
  nArrived,     \* history: number of audio frames received so far
  tr,           \* Transcriber flags
  config,       \* Transcriber rate, language, encoding, punctuation, interim_results
  queue,        \* QueuedAudioStream.queue
  pushed,       \* history: frames written to the queue, in order
  workerPc,     \* position of the worker thread in Transcriber.run
  exc,          \* exception travelling up (or having left) run()
  rpc,          \* the streaming call: "none", "open", "closed"
  rpcOpens,     \* history: number of streaming calls opened
  nEvents,      \* history: number of response events consumed
  genPc,        \* position of the request generator _request_stream
  genData,      \* the frame the generator has read
  transcribing, \* history: frames passed to on_transcribing
  forwarded,    \* history: frames yielded to the streaming call
  dropped,      \* history: frames taken off the queue and not returned by read()
  cleared,      \* history: frames discarded by __exit__
  transcribed,  \* history: results passed to on_transcribed
  written,      \* history: messages written to the websocket
  fwdAtError,   \* history: Len(forwarded) when the error event was processed
  id_counter,   \* the module-level _id_counter: the value next() returns
  handlers,     \* the SpeechHandler objects of several sessions, by creation
  transcribers, \* the Transcriber objects the handlers created
  streams       \* the QueuedAudioStream objects the transcribers created

vars == <<clock, nTicks, conn, clients, start_time, first_audio, hPc, hData,
          handlerError, nArrived, tr, config, queue, pushed, workerPc, exc, rpc, rpcOpens,
          nEvents, genPc, genData, transcribing, forwarded, dropped, cleared,
          transcribed, written, fwdAtError,
          id_counter, handlers, transcribers, streams>>

handlerVars == <<conn, clients, start_time, first_audio, hPc, hData,
                 handlerError, nArrived>>
workerVars == <<workerPc, exc, rpc, rpcOpens, nEvents, transcribed, written,
                fwdAtError>>
genVars == <<genPc, genData, transcribing, forwarded, dropped, cleared>>
\* the objects of the sessions of SpecMulti; the other specifications follow
\* one session and leave them as constructed
multiVars == <<id_counter, handlers, transcribers, streams>>
oneVars == <<clock, nTicks, conn, start_time, first_audio, hPc, hData,
             handlerError, nArrived, tr, config, queue, pushed, workerVars, genVars>>

----------------------------------------------------------------------------
(* Bounds *)

MaxFrames == 2      \* audio frames received on the connection
MaxEvents == 2      \* response events the service sends
MaxResults == 2     \* results carried by one response event
MaxSessions == 2    \* handlers created, in the specification of several sessions

(* Program constants *)

TIMEOUT == 60
None == -1
HandlerId == 0      \* first value of _id_counter

FrameData == {"", "a"}          \* an empty chunk and a non-empty one
NoFrame == [id |-> 0, data |-> ""]
\* transcripts of a result: an interim text and an empty one
Results == {[text |-> "hi", is_final |-> FALSE],
            [text |-> "", is_final |-> TRUE]}
\* The instants at which the clock is read: the first frame can be followed
\* by one 59 s later and by one 61 s later.
Instants == <<1, TIMEOUT, TIMEOUT + 2>>

\* Transcriber.__init__ defaults
DefaultConfig ==
  [rate |-> "44100", language |-> "en-US", encoding |-> "LINEAR16",
   punctuation |-> "True", interim_results |-> "True"]

\* Configuration messages: a JSON object is a function from the names it
\* holds to their values, each written as a string ("null" is JSON null).
ConfigNames == <<"rate", "language", "encoding", "punctuation">>
ConfigMessages ==
  {[rate |-> "16000", language |-> "null", interim_results |-> "False"]}
\* more of them: fields given, given as null and left out, and a field that
\* is given twice with different values
AnyConfigMessages ==
  ConfigMessages \cup
    {[rate |-> "8000", encoding |-> "FLAC", punctuation |-> "False"],
     [language |-> "fr-FR", encoding |-> "null"]}

(* Python truthiness of a number-or-None and of a byte string *)
Truthy(x) == x # None /\ x # 0
TruthyData(d) == d # ""

----------------------------------------------------------------------------
(* Transcriber: flags and the methods that only touch them *)

InitTranscriber ==
  [is_started |-> FALSE, is_connected |-> FALSE, thread_started |-> FALSE,
   stop_event |-> FALSE, thread_starts |-> 0]

\* threading.Thread.start(): a second call raises RuntimeError; thread_starts
\* counts the calls (2 stands for "more than once").
ThreadStart(t) ==
  [t EXCEPT !.thread_starts = IF @ < 2 THEN @ + 1 ELSE @]

start_unguarded(t) ==
  LET t1 == [t EXCEPT !.thread_started = TRUE]
  IN  IF ~t1.stop_event THEN ThreadStart(t1) ELSE t1

start(t) ==
  IF t.thread_started
    THEN t
    ELSE LET t1 == [t EXCEPT !.thread_started = TRUE]
         IN  IF ~t1.stop_event THEN ThreadStart(t1) ELSE t1

stop_event_only(t) ==
  [t EXCEPT !.stop_event = TRUE]

\* The two assignments of stop() are one step: the only other writer of
\* is_started is run() (is_started = True), and each ordering of that write
\* with the two assignments leaves the flags as some ordering with the pair.
stop(t) ==
  [t EXCEPT !.is_started = FALSE, !.stop_event = TRUE]

\* _handle_results on a response whose error code is not OK, up to the raise
on_error_skip_stop(t) == t

on_error_response(t) == stop(t)

\* run(): "Exit if stop event occurred"
run_ignores_stop(t) == FALSE

run_exits(t) == t.stop_event

\* _request_stream: while not self._stop_event.is_set()
loop_forever(t) == TRUE

loop_continues(t) == ~t.stop_event

\* _request_stream: if self.on_transcribing: self.on_transcribing(data)
skip_on_transcribing(log, data) == log

fire_on_transcribing(log, data) == Append(log, data)

\* run() once _create_channel has returned
connected(t) == [t EXCEPT !.is_started = TRUE]

----------------------------------------------------------------------------
(* QueuedAudioStream *)

write(q, f) == Append(q, f)

\* Queue.get(): the element taken and the queue left
get_newest(q) == [item |-> q[Len(q)], rest |-> SubSeq(q, 1, Len(q) - 1)]

get(q) == [item |-> Head(q), rest |-> Tail(q)]

\* read(): the value returned for a chunk taken off the queue
read_result_inverted(f) == IF TruthyData(f.data) THEN NoFrame ELSE f

read_result(f) == IF TruthyData(f.data) THEN f ELSE NoFrame

----------------------------------------------------------------------------
(* SpeechHandler.on_message: the timeout check and the configuration *)

\* setattr for every name of the message, null or not, recognized or not
configure_every_name(cfg, data) ==
  [n \in DOMAIN cfg |-> IF n \in DOMAIN data THEN data[n] ELSE cfg[n]]

\* for name in [...]: if name in data and data[name] is not None: setattr
configure(cfg, data) ==
  [n \in DOMAIN cfg |->
     IF /\ \E i \in DOMAIN ConfigNames : ConfigNames[i] = n
        /\ n \in DOMAIN data
        /\ data[n] # "null"
       THEN data[n]
       ELSE cfg[n]]

\* time.time() returns a float, which has no total_seconds()
FloatHasTotalSeconds == FALSE

timeout_check(st, started, now) ==
  IF Truthy(st) /\ started
    THEN IF ~FloatHasTotalSeconds THEN "raise"
         ELSE IF now - st > TIMEOUT THEN "close" ELSE "pass"
    ELSE "pass"

----------------------------------------------------------------------------
Init ==
  /\ clock = Instants[1]
  /\ nTicks = 1
  /\ conn = "new"
  /\ clients = {}
  /\ start_time = None
  /\ first_audio = None
  /\ hPc = "idle"
  /\ hData = NoFrame
  /\ handlerError = "none"
  /\ nArrived = 0
  /\ tr = InitTranscriber
  /\ config = DefaultConfig
  /\ queue = <<>>
  /\ pushed = <<>>
  /\ workerPc = "idle"
  /\ exc = "none"
  /\ rpc = "none"
  /\ rpcOpens = 0
  /\ nEvents = 0
  /\ genPc = "init"
  /\ genData = NoFrame
  /\ transcribing = <<>>
  /\ forwarded = <<>>
  /\ dropped = {}
  /\ cleared = {}
  /\ transcribed = <<>>
  /\ written = <<>>
  /\ fwdAtError = None
  /\ id_counter = HandlerId
  /\ handlers = <<>>
  /\ transcribers = <<>>
  /\ streams = <<>>

Tick ==
  /\ nTicks < Len(Instants)
  /\ nTicks' = nTicks + 1
  /\ clock' = Instants[nTicks + 1]
  /\ UNCHANGED <<config, pushed, handlerVars, tr, queue, workerVars, genVars>>
  /\ UNCHANGED multiVars

----------------------------------------------------------------------------
(* The module-level registry and the objects a handler creates *)

\* an _id_counter whose next() does not move on
next_id_same(c) == c

\* _id_counter.next(): the counter after the call (the call returns c)
next_id(c) == c + 1

\* open(): if self.id not in _clients: _clients[self.id] = self
register(c, id) == IF id \notin c THEN c \cup {id} ELSE c

\* on_close(): if self.id in _clients: del _clients[self.id]
unregister(c, id) == IF id \in c THEN c \ {id} ELSE c

\* one QueuedAudioStream for all transcribers
shared_audio_stream(ss) == 1

\* Transcriber.__init__: audio_stream is None, so a new QueuedAudioStream()
new_audio_stream(ss) == Len(ss) + 1

----------------------------------------------------------------------------
(* IOLoop thread: SpeechHandler *)

Open ==
  /\ conn = "new"
  /\ conn' = "open"
  /\ clients' = register(clients, HandlerId)
  /\ UNCHANGED <<config, pushed, clock, nTicks, start_time, first_audio, hPc, hData, handlerError,
                 nArrived, tr, queue, workerVars, genVars>>
  /\ UNCHANGED multiVars

\* on_message with a unicode JSON string. An exception raised by on_message
\* goes to the web framework; it is recorded in handlerError, and what the
\* connection does next (more messages, on_close) is left open.
on_message_text(data) ==
  /\ conn \in {"open", "closing"}
  /\ hPc = "idle"
  /\ LET c == timeout_check(start_time, tr.is_started, clock)
     IN  /\ handlerError' = IF c = "raise" THEN "AttributeError" ELSE handlerError
         /\ conn' = IF c = "close" THEN "closing" ELSE conn
         /\ config' = IF c = "pass" THEN configure(config, data) ELSE config
         /\ tr' = IF c = "pass" THEN start(tr) ELSE tr
  /\ UNCHANGED <<clock, nTicks, clients, start_time, first_audio, hPc, hData,
                 nArrived, queue, pushed, workerVars, genVars>>
  /\ UNCHANGED multiVars

OnMessageConfig == \E data \in ConfigMessages : on_message_text(data)

\* any of the configuration messages, any number of times
OnMessageAnyConfig == \E data \in AnyConfigMessages : on_message_text(data)

\* on_message with a binary chunk: lines up to the isinstance test
OnAudioArrive ==
  /\ conn \in {"open", "closing"}
  /\ hPc = "idle"
  /\ nArrived < MaxFrames
  /\ \E d \in FrameData :
       LET c == timeout_check(start_time, tr.is_started, clock)
       IN  /\ nArrived' = nArrived + 1
           /\ first_audio' = IF first_audio = None THEN clock ELSE first_audio
           /\ handlerError' = IF c = "raise" THEN "AttributeError" ELSE handlerError
           /\ conn' = IF c = "close" THEN "closing" ELSE conn
           /\ hPc' = IF c = "pass" THEN "ensure" ELSE "idle"
           /\ hData' = IF c = "pass" THEN [id |-> nArrived + 1, data |-> d] ELSE hData
  /\ UNCHANGED <<config, pushed, clock, nTicks, clients, start_time, tr, queue, workerVars, genVars>>
  /\ UNCHANGED multiVars

\* on_message with a binary chunk: "Ensure is started" and transcribe(data)
OnAudioEnsure ==
  /\ hPc = "ensure"
  /\ start_time' = IF ~tr.is_started THEN clock ELSE start_time
  /\ tr' = IF ~tr.is_started THEN start(tr) ELSE tr
  /\ queue' = write(queue, hData)
  /\ pushed' = Append(pushed, hData)
  /\ hPc' = "idle"
  /\ hData' = NoFrame
  /\ UNCHANGED <<config, clock, nTicks, conn, clients, first_audio, handlerError, nArrived,
                 workerVars, genVars>>
  /\ UNCHANGED multiVars

OnClose ==
  /\ conn \in {"open", "closing"}
  /\ hPc = "idle"
  /\ tr' = stop(tr)
  /\ clients' = unregister(clients, HandlerId)
  /\ conn' = "closed"
  /\ UNCHANGED <<config, pushed, clock, nTicks, start_time, first_audio, hPc, hData, handlerError,
                 nArrived, queue, workerVars, genVars>>
  /\ UNCHANGED multiVars

----------------------------------------------------------------------------
(* Worker thread: Transcriber.run and _handle_results *)

\* run(): "Exit if stop event occurred"
WorkerRun ==
  /\ workerPc = "idle"
  /\ tr.thread_starts >= 1
  /\ workerPc' = IF run_exits(tr) THEN "done" ELSE "connect"
  /\ UNCHANGED <<config, pushed, clock, nTicks, handlerVars, tr, queue, exc, rpc, rpcOpens, nEvents,
                 transcribed, written, fwdAtError, genVars>>
  /\ UNCHANGED multiVars

\* _create_channel() returns; is_started = True
WorkerConnect ==
  /\ workerPc = "connect"
  /\ tr' = connected(tr)
  /\ workerPc' = "open"
  /\ UNCHANGED <<config, pushed, clock, nTicks, handlerVars, queue, exc, rpc, rpcOpens, nEvents,
                 transcribed, written, fwdAtError, genVars>>
  /\ UNCHANGED multiVars

\* _create_channel() raises: the exception leaves run() before the try
WorkerConnectFail ==
  /\ workerPc = "connect"
  /\ exc' = "ConnectionError"
  /\ workerPc' = "dead"
  /\ UNCHANGED <<config, pushed, clock, nTicks, handlerVars, tr, queue, rpc, rpcOpens, nEvents,
                 transcribed, written, fwdAtError, genVars>>
  /\ UNCHANGED multiVars

\* streaming_recognize() opens the call
WorkerOpen ==
  /\ workerPc = "open"
  /\ rpc' = "open"
  /\ rpcOpens' = rpcOpens + 1
  /\ workerPc' = "handle"
  /\ UNCHANGED <<config, pushed, clock, nTicks, handlerVars, tr, queue, exc, nEvents, transcribed,
                 written, fwdAtError, genVars>>
  /\ UNCHANGED multiVars

\* streaming_recognize() raises, inside the try
WorkerOpenFail ==
  /\ workerPc = "open"
  /\ exc' = "ConnectionError"
  /\ workerPc' = "finally"
  /\ UNCHANGED <<config, pushed, clock, nTicks, handlerVars, tr, queue, rpc, rpcOpens, nEvents,
                 transcribed, written, fwdAtError, genVars>>
  /\ UNCHANGED multiVars

\* on_transcribed without the test of result.text
on_transcribed_any_text(w, r) ==
  Append(w, [seq |-> r.seq, text |-> r.text, isFinal |-> r.is_final])

\* SpeechHandler.on_transcribed, called on the worker thread
on_transcribed(w, r) ==
  IF r.text # ""
    THEN Append(w, [seq |-> r.seq, text |-> r.text, isFinal |-> r.is_final])
    ELSE w

\* a response without error, carrying one result
WorkerResult ==
  /\ workerPc = "handle"
  /\ nEvents < MaxEvents
  /\ \E r \in Results :
       LET result == [seq |-> nEvents + 1, text |-> r.text, is_final |-> r.is_final]
       IN  /\ transcribed' = Append(transcribed, result)
           /\ written' = on_transcribed(written, result)
  /\ nEvents' = nEvents + 1
  /\ UNCHANGED <<config, pushed, clock, nTicks, handlerVars, tr, queue, workerPc, exc, rpc, rpcOpens,
                 fwdAtError, genVars>>
  /\ UNCHANGED multiVars

\* The results one response can carry: none, one or several, each with an
\* interim text or an empty one.
Responses == UNION {[1..n -> Results] : n \in 0..MaxResults}

\* the loop over resp.results taken from the last result to the first
RECURSIVE each_result_reversed(_, _)
each_result_reversed(w, rs) ==
  IF rs = <<>> THEN w
  ELSE each_result_reversed(on_transcribed(w, rs[Len(rs)]), SubSeq(rs, 1, Len(rs) - 1))

\* for result in resp.results: self.on_transcribed(result)
RECURSIVE each_result(_, _)
each_result(w, rs) ==
  IF rs = <<>> THEN w
  ELSE each_result(on_transcribed(w, Head(rs)), Tail(rs))

\* a response without error, carrying any number of results; the callbacks of
\* one response run back to back on the worker thread and touch nothing but
\* the connection, so the response is handled in one step
WorkerResponse ==
  /\ workerPc = "handle"
  /\ nEvents < MaxEvents
  /\ \E rs \in Responses :
       LET results == [i \in 1..Len(rs) |->
                         [seq |-> Len(transcribed) + i, text |-> rs[i].text,
                          is_final |-> rs[i].is_final]]
       IN  /\ transcribed' = transcribed \o results
           /\ written' = each_result(written, results)
  /\ nEvents' = nEvents + 1
  /\ UNCHANGED <<config, pushed, clock, nTicks, handlerVars, tr, queue, workerPc, exc, rpc, rpcOpens,
                 fwdAtError, genVars>>
  /\ UNCHANGED multiVars

\* a response whose error code is not OK: stop(), raise RuntimeError
WorkerError ==
  /\ workerPc = "handle"
  /\ nEvents < MaxEvents
  /\ nEvents' = nEvents + 1
  /\ tr' = on_error_response(tr)
  /\ exc' = "RuntimeError"
  /\ fwdAtError' = Len(forwarded)
  /\ workerPc' = "finally"
  /\ UNCHANGED <<config, pushed, clock, nTicks, handlerVars, queue, rpc, rpcOpens, transcribed,
                 written, genVars>>
  /\ UNCHANGED multiVars

\* the remote closes the response stream
WorkerStreamEnd ==
  /\ workerPc = "handle"
  /\ rpc' = "closed"
  /\ workerPc' = "finally"
  /\ UNCHANGED <<config, pushed, clock, nTicks, handlerVars, tr, queue, exc, rpcOpens, nEvents,
                 transcribed, written, fwdAtError, genVars>>
  /\ UNCHANGED multiVars

\* finally: self.stop(); a pending exception then leaves run(). The call is
\* over once run() has returned.
WorkerFinally ==
  /\ workerPc = "finally"
  /\ tr' = stop(tr)
  /\ rpc' = IF rpc = "open" THEN "closed" ELSE rpc
  /\ workerPc' = IF exc = "none" THEN "done" ELSE "dead"
  /\ UNCHANGED <<config, pushed, clock, nTicks, handlerVars, queue, exc, rpcOpens, nEvents,
                 transcribed, written, fwdAtError, genVars>>
  /\ UNCHANGED multiVars

----------------------------------------------------------------------------
(* Request generator _request_stream, run by the streaming call's consumer *)

\* first next(): is_connected = True (on_connected is not set by the server),
\* then the with statement is entered
GenStart ==
  /\ genPc = "init"
  /\ rpc = "open"
  /\ tr' = [tr EXCEPT !.is_connected = TRUE]
  /\ genPc' = "check"
  /\ UNCHANGED <<config, pushed, clock, nTicks, handlerVars, queue, workerVars, genData, transcribing,
                 forwarded, dropped, cleared>>
  /\ UNCHANGED multiVars

\* while not self._stop_event.is_set()
GenCheck ==
  /\ genPc = "check"
  /\ genPc' = IF loop_continues(tr) THEN "read" ELSE "exit"
  /\ UNCHANGED <<config, pushed, clock, nTicks, handlerVars, tr, queue, workerVars, genData,
                 transcribing, forwarded, dropped, cleared>>
  /\ UNCHANGED multiVars

\* data = stream.read(); if data
GenRead ==
  /\ genPc = "read"
  /\ IF queue = <<>>
       THEN /\ genPc' = "check"
            /\ UNCHANGED <<queue, genData, dropped>>
       ELSE LET f == get(queue).item
                data == read_result(f)
            IN  /\ queue' = get(queue).rest
                /\ genData' = data
                /\ dropped' = IF data = NoFrame THEN dropped \cup {f} ELSE dropped
                /\ genPc' = IF data = NoFrame THEN "check" ELSE "callback"
  /\ UNCHANGED <<config, pushed, clock, nTicks, handlerVars, tr, workerVars,
                 transcribing, forwarded, cleared>>
  /\ UNCHANGED multiVars

\* self.on_transcribing(data)
GenCallback ==
  /\ genPc = "callback"
  /\ transcribing' = fire_on_transcribing(transcribing, genData)
  /\ genPc' = "yield"
  /\ UNCHANGED <<config, pushed, clock, nTicks, handlerVars, tr, queue, workerVars, genData, forwarded,
                 dropped, cleared>>
  /\ UNCHANGED multiVars

\* yield StreamingRecognizeRequest(audio_content=data)
GenYield ==
  /\ genPc = "yield"
  /\ forwarded' = Append(forwarded, genData)
  /\ genData' = NoFrame
  /\ genPc' = "suspended"
  /\ UNCHANGED <<config, pushed, clock, nTicks, handlerVars, tr, queue, workerVars, transcribing,
                 dropped, cleared>>
  /\ UNCHANGED multiVars

\* the consumer asks for the next request
GenResume ==
  /\ genPc = "suspended"
  /\ rpc = "open"
  /\ genPc' = "check"
  /\ UNCHANGED <<config, pushed, clock, nTicks, handlerVars, tr, queue, workerVars, genData,
                 transcribing, forwarded, dropped, cleared>>
  /\ UNCHANGED multiVars

\* __exit__: the loop has ended, or the suspended generator is closed after
\* the call is over
GenExit ==
  /\ \/ genPc = "exit"
     \/ genPc = "suspended" /\ rpc = "closed"
  /\ cleared' = cleared \cup {queue[i] : i \in DOMAIN queue}
  /\ queue' = <<>>
  /\ genPc' = "done"
  /\ UNCHANGED <<config, pushed, clock, nTicks, handlerVars, tr, workerVars, genData, transcribing,
                 forwarded, dropped>>
  /\ UNCHANGED multiVars

----------------------------------------------------------------------------
Next ==
  \/ Tick
  \/ Open
  \/ OnMessageConfig
  \/ OnAudioArrive
  \/ OnAudioEnsure
  \/ OnClose
  \/ WorkerRun
  \/ WorkerConnect
  \/ WorkerConnectFail
  \/ WorkerOpen
  \/ WorkerOpenFail
  \/ WorkerResult
  \/ WorkerError
  \/ WorkerStreamEnd
  \/ WorkerFinally
  \/ GenStart
  \/ GenCheck
  \/ GenRead
  \/ GenCallback
  \/ GenYield
  \/ GenResume
  \/ GenExit

Spec == Init /\ [][Next]_vars

\* A session that is configured by a text message and sends no audio, with
\* responses that carry several results.
NextRelay ==
  \/ Open
  \/ OnMessageAnyConfig
  \/ OnClose
  \/ WorkerRun
  \/ WorkerConnect
  \/ WorkerConnectFail
  \/ WorkerOpen
  \/ WorkerOpenFail
  \/ WorkerResponse
  \/ WorkerError
  \/ WorkerStreamEnd
  \/ WorkerFinally
  \/ GenStart
  \/ GenCheck
  \/ GenRead
  \/ GenExit

SpecRelay == Init /\ [][NextRelay]_vars

----------------------------------------------------------------------------
(* Several sessions: every handler with its own Transcriber and stream. The *)
(* steps are those of one session taken whole: on_message is one step, and  *)
(* the worker is followed through run(), the request loop and its exit.     *)

TranscriberOf(i) == transcribers[handlers[i].transcriber]
StreamOf(i) == streams[TranscriberOf(i).audio_stream]

\* SpeechHandler.__init__ with Transcriber.__init__
Create ==
  /\ Len(handlers) < MaxSessions
  /\ streams' = Append(streams, <<>>)
  /\ transcribers' =
       Append(transcribers,
              [flags |-> InitTranscriber, config |-> DefaultConfig,
               audio_stream |-> new_audio_stream(streams), pc |-> "idle"])
  /\ handlers' =
       Append(handlers,
              [id |-> id_counter, conn |-> "new",
               transcriber |-> Len(transcribers) + 1,
               start_time |-> None, error |-> "none", nFrames |-> 0,
               removed |-> 0])
  /\ id_counter' = next_id(id_counter)
  /\ UNCHANGED <<clients, oneVars>>

SessionOpen(i) ==
  /\ handlers[i].conn = "new"
  /\ handlers' = [handlers EXCEPT ![i].conn = "open"]
  /\ clients' = register(clients, handlers[i].id)
  /\ UNCHANGED <<id_counter, transcribers, streams, oneVars>>

\* on_message with a unicode JSON string
SessionConfig(i) ==
  /\ handlers[i].conn = "open"
  /\ handlers[i].error = "none"
  /\ LET h == handlers[i]
         t == h.transcriber
         c == timeout_check(h.start_time, transcribers[t].flags.is_started, clock)
     IN  \E data \in ConfigMessages :
           /\ c # "close"
           /\ handlers' = IF c = "raise"
                            THEN [handlers EXCEPT ![i].error = "AttributeError"]
                            ELSE handlers
           /\ transcribers' =
                IF c = "pass"
                  THEN [transcribers EXCEPT
                          ![t].config = configure(@, data),
                          ![t].flags = start(@)]
                  ELSE transcribers
           /\ transcribers' # transcribers \/ handlers' # handlers
  /\ UNCHANGED <<id_counter, streams, clients, oneVars>>

\* on_message with a binary chunk
SessionAudio(i) ==
  /\ handlers[i].conn = "open"
  /\ handlers[i].error = "none"
  /\ handlers[i].nFrames < MaxFrames
  /\ LET h == handlers[i]
         t == h.transcriber
         started == transcribers[t].flags.is_started
         c == timeout_check(h.start_time, started, clock)
     IN  /\ c # "close"
         /\ handlers' =
              IF c = "raise"
                THEN [handlers EXCEPT ![i].error = "AttributeError"]
                ELSE [handlers EXCEPT
                        ![i].start_time = IF started THEN @ ELSE clock,
                        ![i].nFrames = @ + 1]
         /\ transcribers' =
              IF c = "pass" /\ ~started
                THEN [transcribers EXCEPT ![t].flags = start(@)]
                ELSE transcribers
         /\ streams' =
              IF c = "pass"
                THEN [streams EXCEPT
                        ![transcribers[t].audio_stream] =
                          write(@, [id |-> h.nFrames + 1, data |-> "a"])]
                ELSE streams
  /\ UNCHANGED <<id_counter, clients, oneVars>>

SessionClose(i) ==
  /\ handlers[i].conn = "open"
  /\ handlers' =
       [handlers EXCEPT
          ![i].conn = "closed",
          ![i].removed = IF handlers[i].id \in clients THEN @ + 1 ELSE @]
  /\ transcribers' = [transcribers EXCEPT ![handlers[i].transcriber].flags = stop(@)]
  /\ clients' = unregister(clients, handlers[i].id)
  /\ UNCHANGED <<id_counter, streams, oneVars>>

\* run() up to the streaming call
SessionRun(i) ==
  LET t == handlers[i].transcriber
  IN  /\ transcribers[t].pc = "idle"
      /\ transcribers[t].flags.thread_starts >= 1
      /\ transcribers' =
           IF run_exits(transcribers[t].flags)
             THEN [transcribers EXCEPT ![t].pc = "done"]
             ELSE [transcribers EXCEPT ![t].pc = "handle", ![t].flags = connected(@)]
      /\ UNCHANGED <<id_counter, handlers, streams, clients, oneVars>>

\* _create_channel() or streaming_recognize() raises
SessionConnectFail(i) ==
  LET t == handlers[i].transcriber
  IN  /\ transcribers[t].pc = "idle"
      /\ transcribers[t].flags.thread_starts >= 1
      /\ ~run_exits(transcribers[t].flags)
      /\ transcribers' = [transcribers EXCEPT ![t].pc = "dead"]
      /\ UNCHANGED <<id_counter, handlers, streams, clients, oneVars>>

\* one turn of the request loop that finds a chunk
SessionRead(i) ==
  LET t == handlers[i].transcriber
      a == transcribers[t].audio_stream
  IN  /\ transcribers[t].pc = "handle"
      /\ loop_continues(transcribers[t].flags)
      /\ streams[a] # <<>>
      /\ streams' = [streams EXCEPT ![a] = get(@).rest]
      /\ UNCHANGED <<id_counter, handlers, transcribers, clients, oneVars>>

\* a response whose error code is not OK
SessionError(i) ==
  LET t == handlers[i].transcriber
  IN  /\ transcribers[t].pc = "handle"
      /\ transcribers' =
           [transcribers EXCEPT ![t].flags = on_error_response(@), ![t].pc = "exit"]
      /\ UNCHANGED <<id_counter, handlers, streams, clients, oneVars>>

\* the request loop sees the stop event (or the call has ended): __exit__
\* clears the queue and run() returns
SessionExit(i) ==
  LET t == handlers[i].transcriber
      a == transcribers[t].audio_stream
  IN  /\ \/ transcribers[t].pc = "exit"
         \/ transcribers[t].pc = "handle" /\ ~loop_continues(transcribers[t].flags)
      /\ streams' = [streams EXCEPT ![a] = <<>>]
      /\ transcribers' = [transcribers EXCEPT ![t].pc = "done"]
      /\ UNCHANGED <<id_counter, handlers, clients, oneVars>>

SessionsOpen == \E i \in DOMAIN handlers : SessionOpen(i)
SessionsConfig == \E i \in DOMAIN handlers : SessionConfig(i)
SessionsAudio == \E i \in DOMAIN handlers : SessionAudio(i)
SessionsClose == \E i \in DOMAIN handlers : SessionClose(i)
SessionsRun == \E i \in DOMAIN handlers : SessionRun(i)
SessionsConnectFail == \E i \in DOMAIN handlers : SessionConnectFail(i)
SessionsRead == \E i \in DOMAIN handlers : SessionRead(i)
SessionsError == \E i \in DOMAIN handlers : SessionError(i)
SessionsExit == \E i \in DOMAIN handlers : SessionExit(i)

NextMulti ==
  \/ Create
  \/ SessionsOpen
  \/ SessionsConfig
  \/ SessionsAudio
  \/ SessionsClose
  \/ SessionsRun
  \/ SessionsConnectFail
  \/ SessionsRead
  \/ SessionsError
  \/ SessionsExit

SpecMulti == Init /\ [][NextMulti]_vars

----------------------------------------------------------------------------
(* Properties *)

Range(s) == {s[i] : i \in DOMAIN s}
PosIn(s, x) == CHOOSE i \in DOMAIN s : s[i] = x
Stopped(t) == t.stop_event /\ ~t.is_started
\* messages written to the connection that report an error
ErrorEvents == SelectSeq(written, LAMBDA m : "error" \in DOMAIN m)

\* C1: the frames yielded by _request_stream are frames that were written, in
\* the order in which they were written, and none is yielded twice.
C1_FifoLaw ==
  /\ \A i \in DOMAIN forwarded : forwarded[i] \in Range(pushed)
  /\ \A i, j \in DOMAIN forwarded :
       i < j => PosIn(pushed, forwarded[i]) < PosIn(pushed, forwarded[j])

C1_Witness ==
  /\ Len(forwarded) >= 2
  /\ forwarded[1] = pushed[1]
  /\ forwarded[2] = pushed[2]

\* C2 as stated: every frame written, whatever its content, is still in the
\* queue, held by the request loop, forwarded, or was discarded by clear().
C2_NoFrameDropped ==
  \A f \in Range(pushed) :
    \/ f \in Range(queue)
    \/ f = genData
    \/ f \in Range(forwarded)
    \/ f \in cleared

\* C2 as amended: the above holds of every non-empty frame; the frames the
\* request loop takes off the queue without forwarding are the empty chunks,
\* and no empty chunk is forwarded.
C2_NoNonEmptyFrameDropped ==
  /\ \A f \in Range(pushed) :
       f.data # "" =>
         \/ f \in Range(queue)
         \/ f = genData
         \/ f \in Range(forwarded)
         \/ f \in cleared
  /\ \A f \in dropped : f.data = ""
  /\ \A f \in Range(forwarded) : f.data # ""

C2_Witness ==
  /\ \E f \in Range(forwarded) : f.data # ""
  /\ \E f \in dropped : f.data = ""
  /\ cleared = {}

C4_StoppedIsTerminal == tr.stop_event => ~tr.is_started

\* C5: a second stop() leaves the flags as the first left them (stop event
\* set, is_started False), and a stop() on a stopped session changes neither
\* the flags nor the queue nor what clear() has discarded.
C5_StopIdempotent ==
  /\ [](/\ Stopped(stop(tr))
        /\ stop(stop(tr)) = stop(tr))
  /\ [][(WorkerFinally \/ OnClose) /\ Stopped(tr) =>
          /\ tr' = tr
          /\ queue' = queue
          /\ cleared' = cleared
          /\ genPc' = genPc]_vars

\* stop() was called by _handle_results, by the finally of run() and by on_close
C5_Witness ==
  /\ exc = "RuntimeError"
  /\ workerPc = "dead"
  /\ conn = "closed"

C7_NoForwardAfterError ==
  fwdAtError # None => Len(forwarded) = fwdAtError

\* C8: when _create_channel or streaming_recognize fails, the worker ends with
\* the session stopped, one error event delivered and no exception leaving
\* run().
C8_ConnectFailureContained ==
  (exc = "ConnectionError" /\ workerPc \in {"done", "dead"}) =>
    /\ Stopped(tr)
    /\ Len(ErrorEvents) = 1
    /\ workerPc = "done"

\* C9: an audio frame arriving while is_started, more than TIMEOUT after the
\* first audio frame, ends the session (close(), or the handler failing) and
\* does not go on to be written to the queue.
C9_LateFrameClosesSession ==
  [][(OnAudioArrive /\ tr.is_started /\ first_audio # None
        /\ clock - first_audio > TIMEOUT) =>
       /\ hPc' = "idle"
       /\ conn' = "closing" \/ handlerError' # "none"]_vars

\* C10: an audio frame arriving while is_started, at most TIMEOUT after the
\* recorded start time, raises nothing, does not close the session and goes
\* on to be written to the queue.
C10_FrameWithinTimeoutProcessed ==
  [][(OnAudioArrive /\ tr.is_started /\ start_time # None
        /\ clock - start_time <= TIMEOUT) =>
       /\ handlerError' = "none"
       /\ conn' = conn
       /\ hPc' = "ensure"]_vars

\* C16: once recorded, the start timestamp is not overwritten by a later
\* frame.
C16_StartTimeSetOnce ==
  [][start_time # None => start_time' = start_time]_vars

\* C17, for a stop() that came before run() passed its stop check (so from
\* on_close, after which no frame is pushed): once the worker has exited, the
\* buffer retains no frame.
C17_BufferReleasedOnStop ==
  (conn = "closed" /\ workerPc = "done" /\ rpcOpens = 0 /\ exc = "none") =>
    queue = <<>>

C20_StopBeforeStart ==
  /\ []((tr.stop_event /\ workerPc = "idle") \/ (workerPc = "done" /\ rpcOpens = 0)
          => /\ rpcOpens = 0 /\ rpc = "none"
             /\ transcribing = <<>> /\ transcribed = <<>> /\ forwarded = <<>>
             /\ ~tr.is_started /\ ~tr.is_connected
             /\ genPc = "init")
  /\ [](~tr.thread_started =>
          /\ start(stop(tr)).thread_starts = 0
          /\ start(start(stop(tr))).thread_starts = 0)
  /\ [](rpcOpens <= 1)
  /\ [][(tr.stop_event /\ workerPc = "idle") =>
          (tr'.stop_event /\ workerPc' \in {"idle", "done"} /\ rpcOpens' = 0)]_vars
  /\ [][workerPc = "done" => workerPc' = "done" /\ rpcOpens' = rpcOpens]_vars

\* stop() came after start() and before run() began; the worker has exited
C20_Witness ==
  /\ tr.thread_starts = 1
  /\ workerPc = "done"
  /\ rpcOpens = 0
  /\ Len(pushed) >= 1

\* The scheduler runs every thread that can take a step: the consumer of the
\* request generator and the finally of run(). The remote ends the response
\* stream once the request stream has ended.
StreamEndAfterRequests == genPc = "done" /\ WorkerStreamEnd

Fairness ==
  /\ WF_vars(GenStart)
  /\ WF_vars(GenCheck)
  /\ WF_vars(GenRead)
  /\ WF_vars(GenCallback)
  /\ WF_vars(GenYield)
  /\ WF_vars(GenResume)
  /\ WF_vars(GenExit)
  /\ WF_vars(WorkerFinally)
  /\ WF_vars(StreamEndAfterRequests)

SpecLive == Init /\ [][Next]_vars /\ Fairness

\* C19: when stop() has been called while the worker is in _handle_results,
\* the request loop is eventually over (or was never entered) and the worker
\* thread has eventually left run().
C19_StopTerminatesWorker ==
  (tr.stop_event /\ workerPc = "handle") ~>
    (genPc \in {"init", "done"} /\ workerPc \in {"done", "dead"})

\* stop() came from on_close while streaming; both loops have ended
C19_Witness ==
  /\ conn = "closed"
  /\ rpcOpens = 1
  /\ genPc = "done"
  /\ workerPc = "done"
  /\ Len(forwarded) >= 1

\* the message on_transcribed builds from a result
MessageOf(r) == [seq |-> r.seq, text |-> r.text, isFinal |-> r.is_final]
MessagesOf(rs) == [i \in 1..Len(rs) |-> MessageOf(rs[i])]

\* C11 as stated: one message per result received, whatever its text.
C11_OneMessagePerResult ==
  /\ Len(written) = Len(transcribed)
  /\ written = MessagesOf(transcribed)

\* C11, amended: the messages written are those of the results whose text is
\* not empty, one each; a result with an empty text writes nothing.
C11_OneMessagePerNonEmptyResult ==
  /\ written = MessagesOf(SelectSeq(transcribed, LAMBDA r : r.text # ""))
  /\ Len(written) = Cardinality({i \in DOMAIN transcribed : transcribed[i].text # ""})

C11_Witness ==
  /\ Len(transcribed) = 3
  /\ Len(written) = 2
  /\ transcribed[2].text = ""

\* C12: every message written belongs to a result received, no result is
\* written twice, and the messages follow the order of arrival of their
\* results, within one response and across responses.
C12_ResultOrder ==
  /\ \A i \in DOMAIN written :
       \E k \in DOMAIN transcribed : MessageOf(transcribed[k]) = written[i]
  /\ \A i, j \in DOMAIN written :
       i < j => written[i].seq < written[j].seq
  /\ \A k \in DOMAIN transcribed : transcribed[k].seq = k

\* two results of one response and one of the next, all written
C12_Witness ==
  /\ nEvents = 2
  /\ Len(transcribed) = 3
  /\ Len(written) = 3

\* C15: a configuration message that gets past the timeout check sets rate,
\* language, encoding and punctuation where it gives a non-null value, and
\* leaves the fields it omits or gives as null, and interim_results, as they
\* were.
C15_ConfigFrameRule ==
  [][\A data \in AnyConfigMessages :
       (on_message_text(data) /\ timeout_check(start_time, tr.is_started, clock) = "pass") =>
         /\ \A n \in {"rate", "language", "encoding", "punctuation"} :
              config'[n] = IF n \in DOMAIN data /\ data[n] # "null"
                             THEN data[n] ELSE config[n]
         /\ config'.interim_results = config.interim_results]_vars

\* a rate given twice, an encoding given and then given as null, a language
\* given once, and interim_results as constructed
C15_Witness ==
  /\ config.rate = "16000"
  /\ config.encoding = "FLAC"
  /\ config.language = "fr-FR"
  /\ config.punctuation = "False"
  /\ config.interim_results = DefaultConfig.interim_results

\* C13: the registry holds exactly the ids of the handlers that are open, the
\* ids of the handlers created are pairwise distinct and all below the
\* counter (no later handler gets one of them), and the entry of a handler
\* has been deleted once when it is closed and never before.
C13_RegistryConsistent ==
  /\ clients = {handlers[i].id : i \in {j \in DOMAIN handlers : handlers[j].conn = "open"}}
  /\ \A i, j \in DOMAIN handlers : i # j => handlers[i].id # handlers[j].id
  /\ \A i \in DOMAIN handlers : handlers[i].id < id_counter
  /\ \A i \in DOMAIN handlers :
       handlers[i].removed = IF handlers[i].conn = "closed" THEN 1 ELSE 0

\* one session closed and removed, a later one open and registered
C13_Witness ==
  /\ Len(handlers) = 2
  /\ handlers[1].conn = "closed"
  /\ handlers[1].removed = 1
  /\ handlers[2].conn = "open"
  /\ clients = {handlers[2].id}

\* what C14 calls the state of session j
SessionState(j) ==
  [flags |-> TranscriberOf(j).flags,
   config |-> TranscriberOf(j).config,
   frames |-> StreamOf(j),
   registered |-> handlers[j].id \in clients]

\* C14: a step by which session i fails or stops (its close, an error
\* response, a failed connection, a message stopped by the timeout check, the
\* exit of its request loop) leaves the flags, the buffered frames, the
\* configuration and the registry entry of every other session as they were.
C14_SessionIsolation ==
  [][\A i \in DOMAIN handlers :
       (\/ SessionClose(i)
        \/ SessionError(i)
        \/ SessionConnectFail(i)
        \/ SessionExit(i)
        \/ (SessionAudio(i) \/ SessionConfig(i)) /\ handlers'[i].error # "none")
       => \A j \in DOMAIN handlers \ {i} : SessionState(j)' = SessionState(j)]_vars

\* session 1 stopped by an error and closed, its queue cleared, while session
\* 2 is open, configured, started and holds a frame
C14_Witness ==
  /\ Len(handlers) = 2
  /\ handlers[1].conn = "closed"
  /\ TranscriberOf(1).pc = "done"
  /\ handlers[1].nFrames >= 1
  /\ StreamOf(1) = <<>>
  /\ handlers[2].conn = "open"
  /\ handlers[2].id \in clients
  /\ TranscriberOf(2).flags.is_started
  /\ TranscriberOf(2).config # DefaultConfig
  /\ StreamOf(2) # <<>>

\* C21: once on_close has run (stop() called, the id removed from _clients),
\* no step writes a further result message to the connection.
C21_NoDeliveryAfterClose ==
  [][(conn = "closed" /\ tr.stop_event /\ HandlerId \notin clients) =>
       written' = written]_vars

====
